---- MODULE Spec2Model ----
(***************************************************************************)
(* Model of chess-cli: the Position value object, PieceTypeUtils, the      *)
(* three movement strategies, the strategy factory, PositionSorter,        *)
(* ChessMovementService, InputParser, ErrorHandler and ChessController.    *)
(* A text is a sequence of UTF-16 code units, a                            *)
(* Position is a record of its two private fields, and every call is one    *)
(* action that records its arguments and what it returned or threw.         *)
(***************************************************************************)
EXTENDS Integers, Sequences, FiniteSets, TLC

VARIABLES pc, position, pieceType, argText, argFile, argRank, argNum,
          returned, moves, thrown,
          strategyMap, outputText, strategy, flag, kinds, argList, stdout, stderr,
          exited,
          firstResults, calls,
          maxStepsArg, offsetCalls, positionsArg, positionsAfter

\* the static map of MovementStrategyFactory
factoryVars == <<strategyMap>>

\* what the calls of the factory, the parser and the controller return and print
cliVars == <<strategy, flag, kinds, argList, stdout, stderr, exited>>

\* the results of the first call of the service for each argument pair
historyVars == <<firstResults, calls>>

\* the optional maxSteps of a call of generateMovesInDirection and the
\* number of calls of offset it made; the array given to PositionSorter and
\* the same array after the call
helperVars == <<maxStepsArg, offsetCalls, positionsArg, positionsAfter>>

vars == <<pc, position, pieceType, argText, argFile, argRank, argNum,
          returned, moves, thrown, strategyMap, strategy, flag, kinds, argList,
          outputText, stdout, stderr, exited, firstResults, calls,
          maxStepsArg, offsetCalls, positionsArg, positionsAfter>>

(***************************************************************************)
(* Bounds of the model.                                                    *)
(***************************************************************************)
\* offsets are drawn from -MaxDelta..MaxDelta
MaxDelta == 8
\* notation texts have at most MaxTextLen characters
MaxTextLen == 3
\* file texts handed to the constructor have at most MaxFileLen characters
MaxFileLen == 2

\* calls of the service in one run
MaxCalls == 3

\* arguments on the command line
MaxArgs == 3

\* the largest maxSteps given to generateMovesInDirection
MaxStepLimit == 8

\* the longest array given to PositionSorter
MaxListLen == 3

(***************************************************************************)
(* Program constants.                                                      *)
(***************************************************************************)
CharCodeA == 65
MaxFileIndex == 7
MinRank == 1
MaxRank == 8
Radix == 10

(***************************************************************************)
(* Texts and numbers.                                                      *)
(***************************************************************************)
\* code units: '0'..'9' = 48..57, 'A'..'Z' = 65..90, 'a'..'z' = 97..122,
\* ' ' = 32, '@' = 64, '.' = 46, '-' = 45, U+FB00 (ligature ff) = 64256
Alphabet == (65..73) \cup {97, 101, 104, 105} \cup {48, 49, 53, 56, 57}
              \cup {32, 64, 64256}

FileAlphabet == {65, 72, 73, 97, 64, 49, 64256}

RECURSIVE TextsOver(_, _)
TextsOver(S, n) ==
  IF n = 0 THEN {<<>>}
  ELSE LET shorter == TextsOver(S, n - 1)
       IN  shorter \cup {Append(t, c) : t \in {u \in shorter : Len(u) = n - 1}, c \in S}

\* a JavaScript number: an integer v, v + 1/2, or NaN
Int_(n) == [kind |-> "int", v |-> n]
Frac(n) == [kind |-> "frac", v |-> n]
NaN == [kind |-> "nan", v |-> 0]

RECURSIVE digitsOf(_)
digitsOf(n) ==
  IF n < Radix THEN <<48 + n>> ELSE Append(digitsOf(n \div Radix), 48 + (n % Radix))

intToString(n) == IF n < 0 THEN <<45>> \o digitsOf(0 - n) ELSE digitsOf(n)

\* `${num}`
numberToString(num) ==
  CASE num.kind = "int" -> intToString(num.v)
    [] num.kind = "frac" -> intToString(num.v) \o <<46, 53>>
    [] OTHER -> <<78, 97, 78>>

\* String.prototype.toUpperCase, one code unit at a time (full case mapping:
\* the ligature maps to two letters)
upperOfChar(c) ==
  IF c \in 97..122 THEN <<c - 32>>
  ELSE IF c = 64256 THEN <<70, 70>>
  ELSE IF c = 305 THEN <<73>>
  ELSE <<c>>

\* String.prototype.toLowerCase, one code unit at a time (the Kelvin sign
\* maps to k, the dotted capital I to i and a combining dot)
lowerOfChar(c) ==
  IF c \in 65..90 THEN <<c + 32>>
  ELSE IF c = 8490 THEN <<107>>
  ELSE IF c = 304 THEN <<105, 775>>
  ELSE <<c>>

RECURSIVE toLowerCase(_)
toLowerCase(s) ==
  IF s = <<>> THEN <<>> ELSE lowerOfChar(Head(s)) \o toLowerCase(Tail(s))

\* the code units String.prototype.trim removes, among those of the inputs
WhiteSpace == {9, 10, 13, 32, 160}

RECURSIVE trimStart(_)
trimStart(s) ==
  IF s # <<>> /\ Head(s) \in WhiteSpace THEN trimStart(Tail(s)) ELSE s

RECURSIVE trimEnd(_)
trimEnd(s) ==
  IF s # <<>> /\ s[Len(s)] \in WhiteSpace THEN trimEnd(SubSeq(s, 1, Len(s) - 1)) ELSE s

\* String.prototype.trim
trim(s) == trimEnd(trimStart(s))

\* String.prototype.slice(start) for 0 <= start
slice(s, start) == SubSeq(s, start + 1, Len(s))

\* Array.prototype.join of texts
RECURSIVE join(_, _)
join(texts, separator) ==
  IF texts = <<>> THEN <<>>
  ELSE IF Len(texts) = 1 THEN texts[1]
  ELSE texts[1] \o separator \o join(Tail(texts), separator)

RECURSIVE toUpperCase(_)
toUpperCase(s) ==
  IF s = <<>> THEN <<>> ELSE upperOfChar(Head(s)) \o toUpperCase(Tail(s))

\* s < t, s = t, s > t of the relational operators on strings: -1, 0, 1
RECURSIVE stringCompare(_, _)
stringCompare(s, t) ==
  IF s = <<>> THEN (IF t = <<>> THEN 0 ELSE 0 - 1)
  ELSE IF t = <<>> THEN 1
  ELSE IF Head(s) < Head(t) THEN 0 - 1
  ELSE IF Head(s) > Head(t) THEN 1
  ELSE stringCompare(Tail(s), Tail(t))

\* parseInt giving 0 for a character that is not a digit
parseInt_Zero(ch) ==
  IF ch # <<>> /\ Head(ch) \in 48..57 THEN Int_(Head(ch) - 48) ELSE Int_(0)

\* parseInt(ch, 10) of a one-character string
parseInt(ch) ==
  IF ch # <<>> /\ Head(ch) \in 48..57 THEN Int_(Head(ch) - 48) ELSE NaN

\* String.prototype.charAt
charAt(s, i) == IF i + 1 \in 1..Len(s) THEN <<s[i + 1]>> ELSE <<>>

(***************************************************************************)
(* Errors and results.                                                     *)
(***************************************************************************)
NoError == [msg |-> "", arg |-> <<>>, wrap |-> <<>>]
Error(m, a) == [msg |-> m, arg |-> a, wrap |-> <<>>]

\* the value null, and the value of a position variable that holds nothing
Null == [file |-> <<>>, rank |-> 0]

Return(p) == [pos |-> p, err |-> NoError]
Throw(e) == [pos |-> Null, err |-> e]

(***************************************************************************)
(* PieceType and PieceTypeUtils.                                           *)
(***************************************************************************)
PieceType == {"Pawn", "King", "Queen"}

\* the string value of a piece kind, as code units
codeUnits(kind) ==
  CASE kind = "Pawn" -> <<80, 97, 119, 110>>
    [] kind = "King" -> <<75, 105, 110, 103>>
    [] kind = "Queen" -> <<81, 117, 101, 101, 110>>
    [] kind = "Rook" -> <<82, 111, 111, 107>>
    [] OTHER -> <<>>

\* Object.values(PieceType)
valuesOfPieceType == <<"Pawn", "King", "Queen">>

\* ". Supported types: " of the message of fromString
SupportedTypesText ==
  <<46, 32, 83, 117, 112, 112, 111, 114, 116, 101, 100, 32, 116, 121, 112, 101, 115, 58, 32>>

\* PieceTypeUtils.fromString without the trim
fromString_NoTrim(pieceStr) ==
  LET normalizedStr == pieceStr
      upperStr == toUpperCase(charAt(normalizedStr, 0)) \o toLowerCase(slice(normalizedStr, 1))
      found == {i \in 1..Len(valuesOfPieceType) : codeUnits(valuesOfPieceType[i]) = upperStr}
  IN  IF found = {}
      THEN [kind |-> "",
            err |-> Error("Unsupported piece type",
                          pieceStr \o SupportedTypesText
                            \o join([i \in 1..Len(valuesOfPieceType) |->
                                       codeUnits(valuesOfPieceType[i])], <<44, 32>>))]
      ELSE [kind |-> valuesOfPieceType[CHOOSE i \in found : \A j \in found : i <= j],
            err |-> NoError]

\* PieceTypeUtils.fromString: the kind returned, or the error thrown
fromString(pieceStr) ==
  LET normalizedStr == trim(pieceStr)
      upperStr == toUpperCase(charAt(normalizedStr, 0)) \o toLowerCase(slice(normalizedStr, 1))
      found == {i \in 1..Len(valuesOfPieceType) : codeUnits(valuesOfPieceType[i]) = upperStr}
  IN  IF found = {}
      THEN [kind |-> "",
            err |-> Error("Unsupported piece type",
                          pieceStr \o SupportedTypesText
                            \o join([i \in 1..Len(valuesOfPieceType) |->
                                       codeUnits(valuesOfPieceType[i])], <<44, 32>>))]
      ELSE [kind |-> valuesOfPieceType[CHOOSE i \in found : \A j \in found : i <= j],
            err |-> NoError]

\* PieceTypeUtils.isValid
PieceTypeUtils_isValid(pieceStr) == fromString(pieceStr).err = NoError

(***************************************************************************)
(* Position.                                                               *)
(***************************************************************************)
isValidFile(file) ==
  LET upperFile == toUpperCase(file)
  IN  stringCompare(upperFile, <<CharCodeA>>) >= 0
        /\ stringCompare(upperFile, <<CharCodeA + MaxFileIndex>>) <= 0

isValidRank(rank) ==
  rank.kind = "int" /\ rank.v >= MinRank /\ rank.v <= MaxRank

\* new Position(file, rank)
newPosition(file, rank) ==
  IF ~isValidFile(file) THEN Throw(Error("Invalid file", file))
  ELSE IF ~isValidRank(rank) THEN Throw(Error("Invalid rank", numberToString(rank)))
  ELSE Return([file |-> toUpperCase(file), rank |-> rank.v])

\* the length test accepting every text of two characters or more
fromNotation_LongAccepted(notation) ==
  IF notation = <<>> \/ Len(notation) < 2
  THEN Throw(Error("Invalid notation", notation))
  ELSE LET file == toUpperCase(charAt(notation, 0))
           rank == parseInt(charAt(notation, 1))
       IN  newPosition(file, rank)

fromNotation(notation) ==
  IF notation = <<>> \/ Len(notation) # 2
  THEN Throw(Error("Invalid notation", notation))
  ELSE LET file == toUpperCase(charAt(notation, 0))
           rank == parseInt(charAt(notation, 1))
       IN  newPosition(file, rank)

\* String.fromCharCode of an integer: the code unit is the number modulo 2^16
fromCharCode(n) == <<n % 65536>>

fromCoordinates(fileIndexArg, rank) ==
  newPosition(fromCharCode(CharCodeA + fileIndexArg), Int_(rank))

fileIndex(p) == p.file[1] - CharCodeA

\* the notation written rank first
toNotation_RankFirst(p) == numberToString(Int_(p.rank)) \o p.file

toNotation(p) == p.file \o numberToString(Int_(p.rank))

isValid(p) == isValidFile(p.file) /\ isValidRank(Int_(p.rank))

equals(p, other) == p.file = other.file /\ p.rank = other.rank

\* the upper file bound checked one too far
offset_FileBoundOffByOne(p, fileOffset, rankOffset) ==
  LET newFileIndex == fileIndex(p) + fileOffset
      newRank == p.rank + rankOffset
  IN  IF newFileIndex < 0 \/ newFileIndex > MaxFileIndex + 1
           \/ newRank < MinRank \/ newRank > MaxRank
      THEN Return(Null)
      ELSE fromCoordinates(newFileIndex, newRank)

offset(p, fileOffset, rankOffset) ==
  LET newFileIndex == fileIndex(p) + fileOffset
      newRank == p.rank + rankOffset
  IN  IF newFileIndex < 0 \/ newFileIndex > MaxFileIndex
           \/ newRank < MinRank \/ newRank > MaxRank
      THEN Return(Null)
      ELSE fromCoordinates(newFileIndex, newRank)

\* the receiver's fields after offset returned: both are readonly and
\* offset assigns neither
receiverAfterOffset(p, fileOffset, rankOffset) == p

(***************************************************************************)
(* Movement strategies.                                                    *)
(***************************************************************************)
ReturnMoves(ms) == [moves |-> ms, err |-> NoError]
ThrowMoves(e) == [moves |-> <<>>, err |-> e]

\* maxSteps is <<>> when the optional argument is absent and <<n>> otherwise
Unlimited == <<>>

\* the while loop of generateMovesInDirection, entered with the locals
\* (movesSoFar, steps, currentPos)
RECURSIVE directionLoop(_, _, _, _, _, _)
directionLoop(movesSoFar, steps, currentPos, fileDirection, rankDirection, maxSteps) ==
  IF maxSteps = Unlimited \/ steps < maxSteps[1]
  THEN LET next == offset(currentPos, fileDirection, rankDirection)
       IN  IF next.err # NoError THEN ThrowMoves(next.err)
           ELSE IF next.pos = Null THEN ReturnMoves(movesSoFar)
           ELSE directionLoop(Append(movesSoFar, next.pos), steps + 1, next.pos,
                              fileDirection, rankDirection, maxSteps)
  ELSE ReturnMoves(movesSoFar)

\* the number of calls of offset the while loop makes
RECURSIVE offsetCallsOfLoop(_, _, _, _, _)
offsetCallsOfLoop(steps, currentPos, fileDirection, rankDirection, maxSteps) ==
  IF maxSteps = Unlimited \/ steps < maxSteps[1]
  THEN LET next == offset(currentPos, fileDirection, rankDirection)
       IN  IF next.err # NoError \/ next.pos = Null THEN 1
           ELSE 1 + offsetCallsOfLoop(steps + 1, next.pos, fileDirection, rankDirection,
                                      maxSteps)
  ELSE 0

\* the ray that appends every square twice over
generateMovesInDirection_Twice(p, fileDirection, rankDirection, maxSteps) ==
  ReturnMoves(directionLoop(<<>>, 0, p, fileDirection, rankDirection, maxSteps).moves
                \o directionLoop(<<>>, 0, p, fileDirection, rankDirection, maxSteps).moves)

\* the ray that stops one step short of maxSteps
generateMovesInDirection_OneShort(p, fileDirection, rankDirection, maxSteps) ==
  directionLoop(<<>>, 1, p, fileDirection, rankDirection, maxSteps)

\* the ray started with the origin already in it
generateMovesInDirection_FromOrigin(p, fileDirection, rankDirection, maxSteps) ==
  directionLoop(<<p>>, 0, p, fileDirection, rankDirection, maxSteps)

generateMovesInDirection(p, fileDirection, rankDirection, maxSteps) ==
  directionLoop(<<>>, 0, p, fileDirection, rankDirection, maxSteps)

\* the direction to the left taken twice, left-up not at all
directions_LeftTwice ==
  << <<0 - 1, 0 - 1>>, <<0 - 1, 0>>, <<0 - 1, 0>>,
     <<0, 0 - 1>>,                   <<0, 1>>,
     <<1, 0 - 1>>,     <<1, 0>>,     <<1, 1>> >>

\* the last direction a copy of the one before it
directions_NoRightUp ==
  << <<0 - 1, 0 - 1>>, <<0 - 1, 0>>, <<0 - 1, 1>>,
     <<0, 0 - 1>>,                   <<0, 1>>,
     <<1, 0 - 1>>,     <<1, 0>>,     <<1, 0>> >>

directions ==
  << <<0 - 1, 0 - 1>>, <<0 - 1, 0>>, <<0 - 1, 1>>,
     <<0, 0 - 1>>,                   <<0, 1>>,
     <<1, 0 - 1>>,     <<1, 0>>,     <<1, 1>> >>

\* the for loop of generateMovesInAllDirections from the i-th direction on
RECURSIVE allDirectionsLoop(_, _, _, _)
allDirectionsLoop(allMoves, i, p, maxSteps) ==
  IF i > Len(directions) THEN ReturnMoves(allMoves)
  ELSE LET movesInDirection ==
             generateMovesInDirection(p, directions[i][1], directions[i][2], maxSteps)
       IN  IF movesInDirection.err # NoError THEN movesInDirection
           ELSE allDirectionsLoop(allMoves \o movesInDirection.moves, i + 1, p, maxSteps)

\* the same for loop over another order of the directions
RECURSIVE allDirectionsLoopIn(_, _, _, _, _)
allDirectionsLoopIn(order, allMoves, i, p, maxSteps) ==
  IF i > Len(order) THEN ReturnMoves(allMoves)
  ELSE LET movesInDirection ==
             generateMovesInDirection(p, order[i][1], order[i][2], maxSteps)
       IN  IF movesInDirection.err # NoError THEN movesInDirection
           ELSE allDirectionsLoopIn(order, allMoves \o movesInDirection.moves, i + 1, p,
                                    maxSteps)

\* the directions taken last to first
generateMovesInAllDirections_Reversed(p, maxSteps) ==
  allDirectionsLoopIn([i \in 1..Len(directions) |-> directions[Len(directions) + 1 - i]],
                      <<>>, 1, p, maxSteps)

generateMovesInAllDirections(p, maxSteps) == allDirectionsLoop(<<>>, 1, p, maxSteps)

\* the pawn stepping two ranks up
PawnMovementStrategy_TwoForward(p) ==
  LET forwardMove == offset(p, 0, 2)
  IN  IF forwardMove.err # NoError THEN ThrowMoves(forwardMove.err)
      ELSE IF forwardMove.pos # Null THEN ReturnMoves(<<forwardMove.pos>>)
      ELSE ReturnMoves(<<>>)

\* the pawn stepping down the board
PawnMovementStrategy_Backward(p) ==
  LET forwardMove == offset(p, 0, 0 - 1)
  IN  IF forwardMove.err # NoError THEN ThrowMoves(forwardMove.err)
      ELSE IF forwardMove.pos # Null THEN ReturnMoves(<<forwardMove.pos>>)
      ELSE ReturnMoves(<<>>)

PawnMovementStrategy(p) ==
  LET forwardMove == offset(p, 0, 1)
  IN  IF forwardMove.err # NoError THEN ThrowMoves(forwardMove.err)
      ELSE IF forwardMove.pos # Null THEN ReturnMoves(<<forwardMove.pos>>)
      ELSE ReturnMoves(<<>>)

\* the king moving as the pawn does
KingMovementStrategy_AsPawn(p) == PawnMovementStrategy(p)

\* the king allowed two steps
KingMovementStrategy_TwoSteps(p) == generateMovesInAllDirections(p, <<2>>)

KingMovementStrategy(p) == generateMovesInAllDirections(p, <<1>>)

\* the queen limited to three steps
QueenMovementStrategy_ThreeSteps(p) == generateMovesInAllDirections(p, <<3>>)

QueenMovementStrategy(p) == generateMovesInAllDirections(p, Unlimited)

(***************************************************************************)
(* MovementStrategyFactory.                                                *)
(***************************************************************************)
\* the entries strategyMap is constructed with, in insertion order: the key
\* and the class its creator instantiates
strategyMapEntries ==
  << <<"Pawn", "PawnMovementStrategy">>,
     <<"King", "KingMovementStrategy">>,
     <<"Queen", "QueenMovementStrategy">> >>

\* Map.prototype.has, get and keys
mapHas(map, key) == \E i \in 1..Len(map) : map[i][1] = key

mapGet(map, key) == map[CHOOSE i \in 1..Len(map) : map[i][1] = key][2]

mapKeys(map) == [i \in 1..Len(map) |-> map[i][1]]

hasStrategy(kind) == mapHas(strategyMap, kind)

getSupportedPieceTypes == mapKeys(strategyMap)

\* createStrategy falling back to the queen's strategy
createStrategy_Fallback(kind) ==
  IF ~mapHas(strategyMap, kind)
  THEN [strategy |-> "QueenMovementStrategy", err |-> NoError]
  ELSE [strategy |-> mapGet(strategyMap, kind), err |-> NoError]

\* the class of the strategy returned, or the error thrown
createStrategy(kind) ==
  IF ~mapHas(strategyMap, kind)
  THEN [strategy |-> "",
        err |-> Error("No movement strategy found for piece type", codeUnits(kind))]
  ELSE [strategy |-> mapGet(strategyMap, kind), err |-> NoError]

\* a map that loses the entry a call asked for
strategyMapAfterCall_Consumed(map, kind) ==
  SelectSeq(map, LAMBDA entry : entry[1] # kind)

\* strategyMap after a call of createStrategy, hasStrategy or
\* getSupportedPieceTypes: the map is only read
strategyMapAfterCall(map, kind) == map

\* movementStrategy.calculateValidMoves(p), dispatched on the class
calculateValidMovesOf(movementStrategy, p) ==
  CASE movementStrategy = "PawnMovementStrategy" -> PawnMovementStrategy(p)
    [] movementStrategy = "KingMovementStrategy" -> KingMovementStrategy(p)
    [] OTHER -> QueenMovementStrategy(p)

(***************************************************************************)
(* PositionSorter.                                                         *)
(***************************************************************************)
\* a.file.localeCompare(b.file); the files compared are texts of the
\* capital letters A..H, which collate in code-unit order
localeCompare(s, t) == stringCompare(s, t)

\* the comparator with rank as the primary key
compare_RankFirst(a, b) ==
  IF a.rank # b.rank THEN a.rank - b.rank ELSE localeCompare(a.file, b.file)

compare(a, b) ==
  LET fileComparison == localeCompare(a.file, b.file)
  IN  IF fileComparison # 0 THEN fileComparison ELSE a.rank - b.rank

\* Array.prototype.sort is stable: x goes after the elements of the sorted
\* prefix that do not compare greater than it
insertSorted(sorted, x) ==
  LET k == Cardinality({j \in 1..Len(sorted) : compare(sorted[j], x) <= 0})
  IN  SubSeq(sorted, 1, k) \o <<x>> \o SubSeq(sorted, k + 1, Len(sorted))

RECURSIVE sortFrom(_, _)
sortFrom(sorted, rest) ==
  IF rest = <<>> THEN sorted ELSE sortFrom(insertSorted(sorted, Head(rest)), Tail(rest))

sort(positions) == sortFrom(<<>>, positions)

\* array.findIndex(p => p.equals(x)) from index i on, 1-based; 0 when
\* there is none
RECURSIVE findIndexFrom(_, _, _)
findIndexFrom(array, x, i) ==
  IF i > Len(array) THEN 0
  ELSE IF equals(array[i], x) THEN i
  ELSE findIndexFrom(array, x, i + 1)

\* the index of the last element equal to x
findIndex_Last(array, x) ==
  IF \A i \in 1..Len(array) : ~equals(array[i], x) THEN 0
  ELSE CHOOSE i \in 1..Len(array) :
         equals(array[i], x) /\ \A j \in (i + 1)..Len(array) : ~equals(array[j], x)

findIndex(array, x) == findIndexFrom(array, x, 1)

\* array.filter(keep) for a predicate on (element, index)
RECURSIVE filterFrom(_, _, _)
filterFrom(array, i, kept) ==
  IF i > Len(array) THEN kept
  ELSE filterFrom(array, i + 1,
                  IF findIndex(array, array[i]) = i THEN Append(kept, array[i]) ELSE kept)

\* the notations joined by a comma only
toOutputString_NoSpace(positions) ==
  LET sortedPositions == sort(positions)
  IN  join([i \in 1..Len(sortedPositions) |-> toNotation(sortedPositions[i])], <<44>>)

toOutputString(positions) ==
  LET sortedPositions == sort(positions)
  IN  join([i \in 1..Len(sortedPositions) |-> toNotation(sortedPositions[i])], <<44, 32>>)

\* duplicates removed but the result left in the order of the rays
sortAndDeduplicate_Unsorted(positions) == filterFrom(positions, 1, <<>>)

sortAndDeduplicate(positions) ==
  LET uniquePositions == filterFrom(positions, 1, <<>>)
  IN  sort(uniquePositions)

\* the array given to sortAndDeduplicate after the call: filter and the
\* spread in sort make new arrays, the argument is only read
arrayAfterSortAndDeduplicate(positions) == positions

(***************************************************************************)
(* ChessMovementService.                                                   *)
(***************************************************************************)
\* the error caught thrown again as it is
Rethrow_Same(prefix, e) == e

\* throw new Error(`Failed to calculate moves: ${error.message}`)
Rethrow(prefix, e) == [msg |-> e.msg, arg |-> e.arg, wrap |-> <<prefix>> \o e.wrap]

calculateValidMoves(kind, p) ==
  LET movementStrategy == createStrategy(kind)
  IN  IF movementStrategy.err # NoError
      THEN ThrowMoves(Rethrow("Failed to calculate moves", movementStrategy.err))
      ELSE LET validMoves == calculateValidMovesOf(movementStrategy.strategy, p)
           IN  IF validMoves.err # NoError
               THEN ThrowMoves(Rethrow("Failed to calculate moves", validMoves.err))
               ELSE ReturnMoves(sortAndDeduplicate(validMoves.moves))

\* the moves awaited, the string returned, or the error thrown
formatted(validMoves) ==
  IF validMoves.err # NoError
  THEN [moves |-> <<>>, text |-> <<>>, err |-> validMoves.err]
  ELSE [moves |-> validMoves.moves, text |-> toOutputString(validMoves.moves),
        err |-> NoError]

calculateValidMovesAsString(kind, p) == formatted(calculateValidMoves(kind, p))

(***************************************************************************)
(* InputParser.  An argument list is null or undefined (isNull) or an      *)
(* array of texts (items).                                                 *)
(***************************************************************************)
\* the error validateArgsLength throws, NoError when it returns
validateArgsLength(args) ==
  IF args.isNull \/ Len(args.items) = 0
  THEN Error("No arguments provided", <<>>)
  ELSE IF Len(args.items) # 2
  THEN Error("Invalid number of arguments", numberToString(Int_(Len(args.items))))
  ELSE IF \E i \in 1..Len(args.items) :
            args.items[i] = <<>> \/ Len(trim(args.items[i])) = 0
  THEN Error("Arguments cannot be empty", <<>>)
  ELSE NoError

ReturnParsed(kind, p) == [pieceType |-> kind, position |-> p, err |-> NoError]
ThrowParsed(e) == [pieceType |-> "", position |-> Null, err |-> e]

\* parseArgs reading the square before the piece kind
parseArgs_SquareFirst(args) ==
  LET invalid == validateArgsLength(args)
  IN  IF invalid # NoError THEN ThrowParsed(invalid)
      ELSE LET pieceTypeStr == args.items[1]
               positionStr == args.items[2]
               parsedPosition == fromNotation(positionStr)
               parsedPieceType == fromString(pieceTypeStr)
           IN  IF parsedPosition.err # NoError
               THEN ThrowParsed(Rethrow("Invalid input", parsedPosition.err))
               ELSE IF parsedPieceType.err # NoError
               THEN ThrowParsed(Rethrow("Invalid input", parsedPieceType.err))
               ELSE ReturnParsed(parsedPieceType.kind, parsedPosition.pos)

\* the parsed input returned, or the error thrown
parseArgs(args) ==
  LET invalid == validateArgsLength(args)
  IN  IF invalid # NoError THEN ThrowParsed(invalid)
      ELSE LET pieceTypeStr == args.items[1]
               positionStr == args.items[2]
               parsedPieceType == fromString(pieceTypeStr)
               parsedPosition == fromNotation(positionStr)
           IN  IF parsedPieceType.err # NoError
               THEN ThrowParsed(Rethrow("Invalid input", parsedPieceType.err))
               ELSE IF parsedPosition.err # NoError
               THEN ThrowParsed(Rethrow("Invalid input", parsedPosition.err))
               ELSE ReturnParsed(parsedPieceType.kind, parsedPosition.pos)

\* String.prototype.split on a one-character separator
RECURSIVE splitFrom(_, _, _, _)
splitFrom(s, separator, i, part) ==
  IF i > Len(s) THEN <<part>>
  ELSE IF s[i] = separator THEN <<part>> \o splitFrom(s, separator, i + 1, <<>>)
  ELSE splitFrom(s, separator, i + 1, Append(part, s[i]))

split(s, separator) == splitFrom(s, separator, 1, <<>>)

\* the input of parseString is a string (text) or null, undefined or
\* another value that is not a string (isNull)
parseString_NoTrim(input) ==
  IF input.isNull \/ input.text = <<>>
  THEN ThrowParsed(Error("Input must be a non-empty string", <<>>))
  ELSE IF Len(split(input.text, 44)) # 2
  THEN ThrowParsed(Error("Invalid input format", input.text))
  ELSE parseArgs([isNull |-> FALSE, items |-> split(input.text, 44)])

\* input.split(',').map(part => part.trim())
partsOf(text) == [i \in 1..Len(split(text, 44)) |-> trim(split(text, 44)[i])]

parseString(input) ==
  IF input.isNull \/ input.text = <<>>
  THEN ThrowParsed(Error("Input must be a non-empty string", <<>>))
  ELSE IF Len(partsOf(input.text)) # 2
  THEN ThrowParsed(Error("Invalid input format", input.text))
  ELSE parseArgs([isNull |-> FALSE, items |-> partsOf(input.text)])

(***************************************************************************)
(* ErrorHandler and ChessController.  A line of stderr is the context and  *)
(* the error whose message it shows; exited is <<>> while the process      *)
(* runs and <<code>> once process.exit(code) was called, after which       *)
(* nothing runs.                                                           *)
(***************************************************************************)
\* `[${context}] Error: ${error.message}`
formatErrorMessage(error, context) == [context |-> context, err |-> error]

\* handleFatalError returning to its caller after the line is printed
handleFatalError_NoExit(error, context) ==
  [stdout |-> <<>>, stderr |-> <<formatErrorMessage(error, context)>>, exited |-> <<>>]

\* what the process printed and its exit after handleFatalError
handleFatalError(error, context) ==
  [stdout |-> <<>>, stderr |-> <<formatErrorMessage(error, context)>>, exited |-> <<1>>]

\* console.log(result)
outputResult(result) == [stdout |-> <<result>>, stderr |-> <<>>, exited |-> <<>>]

\* processMovementRequest from the await of calculateValidMovesAsString on
movementRequestAwaited(validMovesString) ==
  IF validMovesString.err # NoError
  THEN handleFatalError(validMovesString.err, "Movement Calculation")
  ELSE outputResult(validMovesString.text)

\* what the process printed and its exit after processMovementRequest
processMovementRequest(kind, p) ==
  IF ~hasStrategy(kind)
  THEN handleFatalError(Error("Unsupported piece type", codeUnits(kind)),
                        "Movement Calculation")
  ELSE movementRequestAwaited(calculateValidMovesAsString(kind, p))

\* processCommandLineInput from the return of parseArgs on
commandLineParsed(parsedInput) ==
  IF parsedInput.err # NoError
  THEN handleFatalError(parsedInput.err, "Input Processing")
  ELSE processMovementRequest(parsedInput.pieceType, parsedInput.position)

\* what the process printed and its exit after processCommandLineInput
processCommandLineInput(args) == commandLineParsed(parseArgs(args))

\* InputParser.getUsageHelp(): of the message only its first word and the
\* supported pieces are kept, "Usage: Pawn, King, Queen"
getUsageHelp ==
  <<85, 115, 97, 103, 101, 58, 32>>
    \o join([i \in 1..Len(valuesOfPieceType) |-> codeUnits(valuesOfPieceType[i])], <<44, 32>>)

\* args.includes(text)
includes(items, text) == \E i \in 1..Len(items) : items[i] = text

\* args.length === 0 || args.includes('--help') || args.includes('-h')
helpRequested(items) ==
  Len(items) = 0 \/ includes(items, <<45, 45, 104, 101, 108, 112>>) \/ includes(items, <<45, 104>>)

\* console.log(InputParser.getUsageHelp())
displayHelp == [stdout |-> <<getUsageHelp>>, stderr |-> <<>>, exited |-> <<>>]

\* handleHelpOrInvalidInput from the return of parseArgs on
helpAfterParse(parsedInput) ==
  IF parsedInput.err # NoError
  THEN [stdout |-> <<(<<10>>), getUsageHelp>>,
        stderr |-> <<formatErrorMessage(parsedInput.err, "Input Validation")>>,
        exited |-> <<1>>]
  ELSE [stdout |-> <<>>, stderr |-> <<>>, exited |-> <<>>]

\* what the process printed and its exit after handleHelpOrInvalidInput
handleHelpOrInvalidInput(args) ==
  IF helpRequested(args.items) THEN displayHelp ELSE helpAfterParse(parseArgs(args))

\* main asking for help only by its first argument
main_FirstArgumentOnly(args) ==
  IF Len(args.items) = 0 \/ helpRequested(<<args.items[1]>>)
  THEN handleHelpOrInvalidInput(args)
  ELSE processCommandLineInput(args)

\* what the process printed and its exit after main, args being
\* process.argv.slice(2); neither call throws, so the catch is not entered
main(args) ==
  IF helpRequested(args.items)
  THEN handleHelpOrInvalidInput(args)
  ELSE processCommandLineInput(args)

(***************************************************************************)
(* The calls.  A run creates one Position and then makes calls on it;      *)
(* each action is one call: it records the arguments, the value returned   *)
(* and the error thrown, and leaves in position the object the later calls *)
(* act on.                                                                 *)
(***************************************************************************)
NotationTexts == TextsOver(Alphabet, MaxTextLen)

FileTexts == TextsOver(FileAlphabet, MaxFileLen)

RankNumbers == {Int_(n) : n \in {0 - 1, 0, 1, 8, 9}} \cup {Frac(1), NaN}

KindInputs == PieceType \cup {"Rook"}

\* file indexes handed to fromCoordinates: around the board, the indexes
\* of 'a', 'h' and 'i' counted from 'A', and one past the code units
FileIndexInputs == ((0 - 1)..(MaxFileIndex + 1)) \cup {32, 39, 40, 65536}

\* the value of argList when no call with an argument list was made
NoArguments == [isNull |-> FALSE, items |-> <<>>]

\* origins of the repeated calls of the service
CallOrigins == {[file |-> <<65>>, rank |-> 1], [file |-> <<69>>, rank |-> 4]}

\* no call of the service was made yet
NoResults == {}

Init ==
  /\ pc = "start"
  /\ position = Null
  /\ pieceType = ""
  /\ argText = <<>>
  /\ argFile = 0
  /\ argRank = 0
  /\ argNum = NaN
  /\ returned = Null
  /\ moves = <<>>
  /\ thrown = NoError
  /\ strategyMap = strategyMapEntries
  /\ outputText = <<>>
  /\ strategy = ""
  /\ flag = FALSE
  /\ kinds = <<>>
  /\ argList = NoArguments
  /\ stdout = <<>>
  /\ stderr = <<>>
  /\ exited = <<>>
  /\ firstResults = NoResults
  /\ calls = 0
  /\ maxStepsArg = <<>>
  /\ offsetCalls = 0
  /\ positionsArg = <<>>
  /\ positionsAfter = <<>>

NewPosition(file, rank) ==
  LET r == newPosition(file, rank)
  IN  /\ pc' = "new Position"
      /\ position' = r.pos
      /\ returned' = r.pos
      /\ thrown' = r.err
      /\ argText' = file
      /\ argNum' = rank
      /\ pieceType' = ""
      /\ argFile' = 0
      /\ argRank' = 0
      /\ moves' = <<>>
      /\ UNCHANGED factoryVars
      /\ outputText' = <<>>
      /\ UNCHANGED <<cliVars, historyVars>>
      /\ maxStepsArg' = <<>>
      /\ offsetCalls' = 0
      /\ positionsArg' = <<>>
      /\ positionsAfter' = <<>>

FromCoordinates(i, rank) ==
  LET r == fromCoordinates(i, rank)
  IN  /\ pc' = "fromCoordinates"
      /\ position' = r.pos
      /\ returned' = r.pos
      /\ thrown' = r.err
      /\ argFile' = i
      /\ argRank' = rank
      /\ pieceType' = ""
      /\ argText' = <<>>
      /\ argNum' = NaN
      /\ moves' = <<>>
      /\ UNCHANGED factoryVars
      /\ outputText' = <<>>
      /\ UNCHANGED <<cliVars, historyVars>>
      /\ maxStepsArg' = <<>>
      /\ offsetCalls' = 0
      /\ positionsArg' = <<>>
      /\ positionsAfter' = <<>>

FromNotation(notation) ==
  LET r == fromNotation(notation)
  IN  /\ pc' = "fromNotation"
      /\ position' = r.pos
      /\ returned' = r.pos
      /\ thrown' = r.err
      /\ argText' = notation
      /\ pieceType' = ""
      /\ argFile' = 0
      /\ argRank' = 0
      /\ argNum' = NaN
      /\ moves' = <<>>
      /\ UNCHANGED factoryVars
      /\ outputText' = <<>>
      /\ UNCHANGED <<cliVars, historyVars>>
      /\ maxStepsArg' = <<>>
      /\ offsetCalls' = 0
      /\ positionsArg' = <<>>
      /\ positionsAfter' = <<>>

\* position.toNotation(); argText holds the text returned
ToNotation ==
  /\ pc' = "toNotation"
  /\ argText' = toNotation(position)
  /\ returned' = Null
  /\ thrown' = NoError
  /\ pieceType' = ""
  /\ argFile' = 0
  /\ argRank' = 0
  /\ argNum' = NaN
  /\ moves' = <<>>
  /\ UNCHANGED position
  /\ UNCHANGED factoryVars
  /\ outputText' = <<>>
  /\ UNCHANGED <<cliVars, historyVars>>
  /\ maxStepsArg' = <<>>
  /\ offsetCalls' = 0
  /\ positionsArg' = <<>>
  /\ positionsAfter' = <<>>

\* position.offset(fileOffset, rankOffset)
Offset(fileOffset, rankOffset) ==
  LET r == offset(position, fileOffset, rankOffset)
  IN  /\ pc' = "offset"
      /\ position' = receiverAfterOffset(position, fileOffset, rankOffset)
      /\ returned' = r.pos
      /\ thrown' = r.err
      /\ argFile' = fileOffset
      /\ argRank' = rankOffset
      /\ pieceType' = ""
      /\ argText' = <<>>
      /\ argNum' = NaN
      /\ moves' = <<>>
      /\ UNCHANGED factoryVars
      /\ outputText' = <<>>
      /\ UNCHANGED <<cliVars, historyVars>>
      /\ maxStepsArg' = <<>>
      /\ offsetCalls' = 0
      /\ positionsArg' = <<>>
      /\ positionsAfter' = <<>>

\* MovementStrategyFactory.createStrategy(kind).calculateValidMoves(position)
RunStrategy(kind) ==
  LET r == calculateValidMovesOf(createStrategy(kind).strategy, position)
  IN  /\ pc' = "strategy"
      /\ pieceType' = kind
      /\ moves' = r.moves
      /\ thrown' = r.err
      /\ returned' = Null
      /\ argFile' = 0
      /\ argRank' = 0
      /\ argText' = <<>>
      /\ argNum' = NaN
      /\ UNCHANGED position
      /\ strategyMap' = strategyMapAfterCall(strategyMap, kind)
      /\ outputText' = <<>>
      /\ UNCHANGED <<cliVars, historyVars>>
      /\ maxStepsArg' = <<>>
      /\ offsetCalls' = 0
      /\ positionsArg' = <<>>
      /\ positionsAfter' = <<>>

\* new ChessMovementService().calculateValidMoves(kind, position)
CalculateValidMoves(kind) ==
  LET r == calculateValidMoves(kind, position)
  IN  /\ pc' = "calculateValidMoves"
      /\ pieceType' = kind
      /\ moves' = r.moves
      /\ thrown' = r.err
      /\ returned' = Null
      /\ argFile' = 0
      /\ argRank' = 0
      /\ argText' = <<>>
      /\ argNum' = NaN
      /\ UNCHANGED position
      /\ strategyMap' = strategyMapAfterCall(strategyMap, kind)
      /\ outputText' = <<>>
      /\ UNCHANGED <<cliVars, historyVars>>
      /\ maxStepsArg' = <<>>
      /\ offsetCalls' = 0
      /\ positionsArg' = <<>>
      /\ positionsAfter' = <<>>

\* new ChessMovementService().calculateValidMovesAsString(kind, position);
\* moves is the sequence the call awaited from calculateValidMoves
CalculateValidMovesAsString(kind) ==
  LET r == calculateValidMovesAsString(kind, position)
  IN  /\ pc' = "calculateValidMovesAsString"
      /\ pieceType' = kind
      /\ moves' = r.moves
      /\ outputText' = r.text
      /\ thrown' = r.err
      /\ returned' = Null
      /\ argFile' = 0
      /\ argRank' = 0
      /\ argText' = <<>>
      /\ argNum' = NaN
      /\ UNCHANGED position
      /\ strategyMap' = strategyMapAfterCall(strategyMap, kind)
      /\ UNCHANGED <<cliVars, historyVars>>
      /\ maxStepsArg' = <<>>
      /\ offsetCalls' = 0
      /\ positionsArg' = <<>>
      /\ positionsAfter' = <<>>

\* a run creates its Position first; the calls on it follow
Created == position # Null

\* after an offset the run goes on with single steps, as the ray loop does
Next ==
  \/ pc = "start" /\ \E file \in FileTexts, rank \in RankNumbers : NewPosition(file, rank)
  \/ pc = "start" /\ \E i \in FileIndexInputs,
                          rank \in (MinRank - 1)..(MaxRank + 1) : FromCoordinates(i, rank)
  \/ pc = "start" /\ \E notation \in NotationTexts : FromNotation(notation)
  \/ Created /\ ToNotation
  \/ Created /\ pc # "offset"
       /\ \E fileOffset \in (0 - MaxDelta)..MaxDelta,
             rankOffset \in (0 - MaxDelta)..MaxDelta : Offset(fileOffset, rankOffset)
  \/ Created /\ pc = "offset"
       /\ \E fileDirection \in (0 - 1)..1, rankDirection \in (0 - 1)..1 :
             Offset(fileDirection, rankDirection)
  \/ Created /\ pc # "offset" /\ \E kind \in PieceType : RunStrategy(kind)
  \/ Created /\ pc # "offset" /\ \E kind \in KindInputs : CalculateValidMoves(kind)
  \/ Created /\ pc # "offset" /\ \E kind \in KindInputs : CalculateValidMovesAsString(kind)

Spec == Init /\ [][Next]_vars

(***************************************************************************)
(* The calls of the parser, the factory and the controller.  A run makes   *)
(* one call on the freshly loaded program.                                 *)
(***************************************************************************)
\* the lower-case words the piece texts are spelled from
PieceWords ==
  {<<>>, <<112, 97, 119, 110>>, <<107, 105, 110, 103>>, <<113, 117, 101, 101, 110>>,
   <<114, 111, 111, 107>>, <<112, 97, 119>>, <<112, 97, 119, 110, 115>>}

\* every spelling of a lower-case word in upper and lower case
Spellings(word) ==
  {[i \in 1..Len(word) |-> IF i \in upper THEN word[i] - 32 ELSE word[i]] :
     upper \in SUBSET (1..Len(word))}

\* white space around a piece text
Paddings == {<<>>, <<32>>, <<9, 32>>}

\* texts given as a piece kind: the spellings with white space around them,
\* a space inside the word, and letters outside ASCII whose case mappings
\* are ASCII letters
PieceTexts ==
  {left \o word \o right :
     left \in Paddings, right \in Paddings,
     word \in UNION {Spellings(w) : w \in PieceWords}}
  \cup {<<112, 97, 32, 119, 110>>, <<8490, 105, 110, 103>>, <<75, 305, 110, 103>>,
        <<75, 304, 110, 103>>, <<160, 75, 73, 78, 71, 10>>}

\* PieceTypeUtils.fromString(pieceStr)
FromString(pieceStr) ==
  LET r == fromString(pieceStr)
  IN  /\ pc' = "fromString"
      /\ argText' = pieceStr
      /\ pieceType' = r.kind
      /\ thrown' = r.err
      /\ UNCHANGED <<position, argFile, argRank, argNum, returned, moves>>
      /\ UNCHANGED <<factoryVars, outputText, cliVars, historyVars, helperVars>>

\* PieceTypeUtils.isValid(pieceStr)
IsValid(pieceStr) ==
  /\ pc' = "PieceTypeUtils.isValid"
  /\ argText' = pieceStr
  /\ flag' = PieceTypeUtils_isValid(pieceStr)
  /\ UNCHANGED <<position, pieceType, argFile, argRank, argNum, returned, moves, thrown>>
  /\ UNCHANGED <<factoryVars, outputText, strategy, kinds, argList, stdout, stderr, exited,
               historyVars, helperVars>>

\* texts given as arguments: piece kinds, squares, blanks
ArgTexts ==
  {<<75, 105, 110, 103>>, <<32, 107, 73, 78, 71, 32>>, <<112, 97, 119, 110>>,
   <<81, 85, 69, 69, 78>>, <<82, 111, 111, 107>>,
   <<68, 53>>, <<104, 56>>, <<73, 53>>, <<68, 57>>, <<68, 68>>, <<68>>, <<32, 69, 52>>,
   <<104, 64>>, <<>>, <<9, 32>>}

\* argument lists of up to three texts, and null
ArgLists ==
  {[isNull |-> TRUE, items |-> <<>>]}
  \cup {[isNull |-> FALSE, items |-> items] : items \in TextsOver(ArgTexts, MaxArgs)}

\* InputParser.parseArgs(args)
ParseArgs(args) ==
  LET r == parseArgs(args)
  IN  /\ pc' = "parseArgs"
      /\ argList' = args
      /\ pieceType' = r.pieceType
      /\ returned' = r.position
      /\ thrown' = r.err
      /\ UNCHANGED <<position, argText, argFile, argRank, argNum, moves>>
      /\ UNCHANGED <<factoryVars, outputText, strategy, flag, kinds, stdout, stderr, exited,
                     historyVars, helperVars>>

\* new ChessController().processCommandLineInput(args)
ProcessCommandLineInput(args) ==
  LET r == processCommandLineInput(args)
  IN  /\ pc' = "processCommandLineInput"
      /\ argList' = args
      /\ stdout' = r.stdout
      /\ stderr' = r.stderr
      /\ exited' = r.exited
      /\ UNCHANGED <<position, pieceType, argText, argFile, argRank, argNum, returned,
                     moves, thrown>>
      /\ UNCHANGED <<factoryVars, outputText, strategy, flag, kinds, historyVars, helperVars>>

\* new ChessController().processMovementRequest({pieceType: kind, position: origin})
ProcessMovementRequest(kind, origin) ==
  LET r == processMovementRequest(kind, origin)
  IN  /\ pc' = "processMovementRequest"
      /\ pieceType' = kind
      /\ position' = origin
      /\ stdout' = r.stdout
      /\ stderr' = r.stderr
      /\ exited' = r.exited
      /\ UNCHANGED <<argText, argFile, argRank, argNum, returned, moves, thrown>>
      /\ UNCHANGED <<factoryVars, outputText, strategy, flag, kinds, argList, historyVars, helperVars>>

\* piece and square texts without a comma, for the two parts of a string
PartTexts ==
  {<<75, 105, 110, 103>>, <<112, 97, 119, 110>>, <<82, 111, 111, 107>>,
   <<68, 53>>, <<104, 56>>, <<73, 53>>, <<68, 68>>, <<68>>, <<>>}

\* inputs of parseString: a value that is not a string, one to three parts
\* with white space around each, joined by commas
StringInputs ==
  {[isNull |-> TRUE, text |-> <<>>]}
  \cup {[isNull |-> FALSE, text |-> left \o part \o right] :
          left \in Paddings, right \in Paddings, part \in PartTexts}
  \cup {[isNull |-> FALSE, text |-> left \o p \o right \o <<44>> \o left \o s \o right] :
          left \in Paddings, right \in Paddings, p \in PartTexts, s \in PartTexts}
  \cup {[isNull |-> FALSE, text |-> p \o <<44>> \o s \o <<44, 32>> \o s] :
          p \in PartTexts, s \in PartTexts}

\* InputParser.parseString(input)
ParseString(input) ==
  LET r == parseString(input)
  IN  /\ pc' = "parseString"
      /\ argText' = input.text
      /\ argList' = [isNull |-> input.isNull, items |-> <<>>]
      /\ pieceType' = r.pieceType
      /\ returned' = r.position
      /\ thrown' = r.err
      /\ UNCHANGED <<position, argFile, argRank, argNum, moves>>
      /\ UNCHANGED <<factoryVars, outputText, strategy, flag, kinds, stdout, stderr, exited>>
      /\ UNCHANGED <<historyVars, helperVars>>

\* the texts of two characters given as a square
TwoCharacterTexts == {<<first, second>> : first \in Alphabet, second \in Alphabet}

\* texts on the command line of main: piece kinds, squares, help flags
MainTexts ==
  {<<75, 105, 110, 103>>, <<82, 111, 111, 107>>, <<68, 53>>, <<68, 68>>,
   <<45, 45, 104, 101, 108, 112>>, <<45, 104>>, <<45, 72>>, <<>>}

\* process.argv.slice(2): an array of up to MaxArgs texts
MainArgLists == {[isNull |-> FALSE, items |-> items] : items \in TextsOver(MainTexts, MaxArgs)}

\* main() with the arguments args
Main(args) ==
  LET r == main(args)
  IN  /\ pc' = "main"
      /\ argList' = args
      /\ stdout' = r.stdout
      /\ stderr' = r.stderr
      /\ exited' = r.exited
      /\ UNCHANGED <<position, pieceType, argText, argFile, argRank, argNum, returned,
                     moves, thrown>>
      /\ UNCHANGED <<factoryVars, outputText, strategy, flag, kinds, historyVars, helperVars>>

\* new ChessController().handleHelpOrInvalidInput(args)
HandleHelpOrInvalidInput(args) ==
  LET r == handleHelpOrInvalidInput(args)
  IN  /\ pc' = "handleHelpOrInvalidInput"
      /\ argList' = args
      /\ stdout' = r.stdout
      /\ stderr' = r.stderr
      /\ exited' = r.exited
      /\ UNCHANGED <<position, pieceType, argText, argFile, argRank, argNum, returned,
                     moves, thrown>>
      /\ UNCHANGED <<factoryVars, outputText, strategy, flag, kinds, historyVars, helperVars>>

\* the factory is loaded and no other call was made
FactoryOnly == pc \in {"start", "createStrategy", "hasStrategy", "getSupportedPieceTypes"}

\* MovementStrategyFactory.createStrategy(kind)
CreateStrategy(kind) ==
  LET r == createStrategy(kind)
  IN  /\ pc' = "createStrategy"
      /\ pieceType' = kind
      /\ strategy' = r.strategy
      /\ thrown' = r.err
      /\ flag' = FALSE
      /\ kinds' = <<>>
      /\ strategyMap' = strategyMapAfterCall(strategyMap, kind)
      /\ UNCHANGED <<position, argText, argFile, argRank, argNum, returned, moves>>
      /\ UNCHANGED <<outputText, argList, stdout, stderr, exited, historyVars, helperVars>>

\* MovementStrategyFactory.hasStrategy(kind)
HasStrategy(kind) ==
  /\ pc' = "hasStrategy"
  /\ pieceType' = kind
  /\ flag' = hasStrategy(kind)
  /\ thrown' = NoError
  /\ strategy' = ""
  /\ kinds' = <<>>
  /\ strategyMap' = strategyMapAfterCall(strategyMap, kind)
  /\ UNCHANGED <<position, argText, argFile, argRank, argNum, returned, moves>>
  /\ UNCHANGED <<outputText, argList, stdout, stderr, exited, historyVars, helperVars>>

\* MovementStrategyFactory.getSupportedPieceTypes()
GetSupportedPieceTypes ==
  /\ pc' = "getSupportedPieceTypes"
  /\ kinds' = getSupportedPieceTypes
  /\ thrown' = NoError
  /\ pieceType' = ""
  /\ strategy' = ""
  /\ flag' = FALSE
  /\ strategyMap' = strategyMapAfterCall(strategyMap, "")
  /\ UNCHANGED <<position, argText, argFile, argRank, argNum, returned, moves>>
  /\ UNCHANGED <<outputText, argList, stdout, stderr, exited, historyVars, helperVars>>

NextCli ==
  \/ FactoryOnly /\ \E kind \in KindInputs : CreateStrategy(kind)
  \/ FactoryOnly /\ \E kind \in KindInputs : HasStrategy(kind)
  \/ FactoryOnly /\ GetSupportedPieceTypes
  \/ pc = "start" /\ \E args \in ArgLists : ParseArgs(args)
  \/ pc = "start" /\ \E input \in StringInputs : ParseString(input)
  \/ pc = "start" /\ \E args \in MainArgLists : Main(args)
  \/ pc = "start" /\ \E args \in MainArgLists : HandleHelpOrInvalidInput(args)
  \/ pc = "start" /\ \E notation \in TwoCharacterTexts : FromNotation(notation)
  \/ pc = "start" /\ \E args \in ArgLists : ProcessCommandLineInput(args)
  \/ pc = "start" /\ \E kind \in KindInputs, origin \in CallOrigins :
                        ProcessMovementRequest(kind, origin)
  \/ pc = "start" /\ \E pieceStr \in PieceTexts : FromString(pieceStr)
  \/ pc = "start" /\ \E pieceStr \in PieceTexts : IsValid(pieceStr)

SpecCli == Init /\ [][NextCli]_vars

(***************************************************************************)
(* Repeated calls of the service.  A run makes up to MaxCalls calls of     *)
(* calculateValidMoves on one ChessMovementService, with calls of the      *)
(* factory in between; firstResults keeps what the first call for each     *)
(* pair of arguments returned or threw.                                    *)
(***************************************************************************)
\* the first call for a pair of arguments is recorded
recorded(results, kind, origin, r) ==
  IF \E first \in results : first.kind = kind /\ first.origin = origin
  THEN results
  ELSE results \cup {[kind |-> kind, origin |-> origin, moves |-> r.moves, err |-> r.err]}

\* service.calculateValidMoves(kind, origin) on a new Position
CalculateValidMovesAgain(kind, origin) ==
  LET r == calculateValidMoves(kind, origin)
  IN  /\ calls < MaxCalls
      /\ pc' = "calculateValidMoves"
      /\ pieceType' = kind
      /\ position' = origin
      /\ moves' = r.moves
      /\ thrown' = r.err
      /\ firstResults' = recorded(firstResults, kind, origin, r)
      /\ calls' = calls + 1
      /\ strategyMap' = strategyMapAfterCall(strategyMap, kind)
      /\ strategy' = ""
      /\ flag' = FALSE
      /\ UNCHANGED <<argText, argFile, argRank, argNum, returned>>
      /\ UNCHANGED <<outputText, kinds, argList, stdout, stderr, exited, helperVars>>

NextCalls ==
  \/ \E kind \in KindInputs, origin \in CallOrigins : CalculateValidMovesAgain(kind, origin)
  \/ \E kind \in KindInputs : CreateStrategy(kind)
  \/ \E kind \in KindInputs : HasStrategy(kind)

SpecCalls == Init /\ [][NextCalls]_vars

(***************************************************************************)
(* The calls of the helpers of the strategies and of PositionSorter.  A    *)
(* run creates one Position and makes one call with it.                    *)
(***************************************************************************)
\* the optional maxSteps
StepLimits == {Unlimited} \cup {<<n>> : n \in 0..MaxStepLimit}

\* generateMovesInDirection(position, fileDirection, rankDirection, maxSteps)
\* of a strategy
GenerateMovesInDirection(fileDirection, rankDirection, maxSteps) ==
  LET r == generateMovesInDirection(position, fileDirection, rankDirection, maxSteps)
  IN  /\ pc' = "generateMovesInDirection"
      /\ argFile' = fileDirection
      /\ argRank' = rankDirection
      /\ maxStepsArg' = maxSteps
      /\ moves' = r.moves
      /\ thrown' = r.err
      /\ offsetCalls' = offsetCallsOfLoop(0, position, fileDirection, rankDirection, maxSteps)
      /\ UNCHANGED <<position, pieceType, argText, argNum, returned>>
      /\ UNCHANGED <<factoryVars, outputText, cliVars, historyVars>>
      /\ UNCHANGED <<positionsArg, positionsAfter>>

\* generateMovesInAllDirections(position, maxSteps) of a strategy
GenerateMovesInAllDirections(maxSteps) ==
  LET r == generateMovesInAllDirections(position, maxSteps)
  IN  /\ pc' = "generateMovesInAllDirections"
      /\ maxStepsArg' = maxSteps
      /\ moves' = r.moves
      /\ thrown' = r.err
      /\ UNCHANGED <<position, pieceType, argText, argFile, argRank, argNum, returned>>
      /\ UNCHANGED <<factoryVars, outputText, cliVars, historyVars>>
      /\ UNCHANGED <<offsetCalls, positionsArg, positionsAfter>>

\* the Positions put in the arrays: A1, A2, B1, H8, and the Position with
\* the file 'AB' that the constructor lets through
ListSquares ==
  {[file |-> <<65>>, rank |-> 1], [file |-> <<65>>, rank |-> 2],
   [file |-> <<66>>, rank |-> 1], [file |-> <<72>>, rank |-> 8],
   [file |-> <<65, 66>>, rank |-> 1]}

\* an array of Position objects: the object at index i has the identity i
ObjectsOf(list) ==
  [i \in 1..Len(list) |-> [file |-> list[i].file, rank |-> list[i].rank, id |-> i]]

PositionArrays == {ObjectsOf(list) : list \in TextsOver(ListSquares, MaxListLen)}

\* PositionSorter.sortAndDeduplicate(positions)
SortAndDeduplicate(positions) ==
  /\ pc' = "sortAndDeduplicate"
  /\ positionsArg' = positions
  /\ moves' = sortAndDeduplicate(positions)
  /\ positionsAfter' = arrayAfterSortAndDeduplicate(positions)
  /\ thrown' = NoError
  /\ UNCHANGED <<position, pieceType, argText, argFile, argRank, argNum, returned>>
  /\ UNCHANGED <<factoryVars, outputText, cliVars, historyVars>>
  /\ UNCHANGED <<maxStepsArg, offsetCalls>>

\* the call follows the construction of its Position
Constructed == pc \in {"new Position", "fromCoordinates"} /\ position # Null

NextRules ==
  \/ pc = "start" /\ \E file \in FileTexts, rank \in RankNumbers : NewPosition(file, rank)
  \/ pc = "start" /\ \E i \in FileIndexInputs,
                          rank \in (MinRank - 1)..(MaxRank + 1) : FromCoordinates(i, rank)
  \/ Constructed
       /\ \E fileDirection \in (0 - 1)..1, rankDirection \in (0 - 1)..1,
             maxSteps \in StepLimits :
            /\ maxSteps = Unlimited => fileDirection # 0 \/ rankDirection # 0
            /\ GenerateMovesInDirection(fileDirection, rankDirection, maxSteps)
  \/ Constructed /\ \E maxSteps \in StepLimits : GenerateMovesInAllDirections(maxSteps)
  \/ pc = "start" /\ \E positions \in PositionArrays : SortAndDeduplicate(positions)

SpecRules == Init /\ [][NextRules]_vars

(***************************************************************************)
(* Vocabulary of the properties.                                           *)
(***************************************************************************)
\* the board square in column i (0 = A) and row r
Square(i, r) == [file |-> <<65 + i>>, rank |-> r]

Board == {Square(i, r) : i \in 0..7, r \in 1..8}

OnBoard(p) == p \in Board

Column(p) == p.file[1] - 65

Elements(seq) == {seq[k] : k \in 1..Len(seq)}

Distance(a, b) == IF a < b THEN b - a ELSE a - b

Corner(p) == Column(p) \in {0, 7} /\ p.rank \in {1, 8}

Edge(p) == Column(p) \in {0, 7} \/ p.rank \in {1, 8}

\* a strategy was run on a board square for one of the three kinds
StrategyRan(kind) == pc = "strategy" /\ pieceType = kind /\ OnBoard(position)

\* the service was asked for one of the three kinds on a board square
ServiceRan(kind) == pc = "calculateValidMoves" /\ pieceType = kind /\ OnBoard(position)

\* C1: for every piece kind and every origin on the board the sequence
\* calculateValidMoves returns has no two equal squares and is strictly
\* ascending by file and, within a file, by rank.
C1_SortedWithoutDuplicates ==
  \A kind \in PieceType :
    ServiceRan(kind) =>
      /\ thrown = NoError
      /\ \A a, b \in 1..Len(moves) : a # b => moves[a] # moves[b]
      /\ \A k \in 1..(Len(moves) - 1) :
           \/ Column(moves[k]) < Column(moves[k + 1])
           \/ Column(moves[k]) = Column(moves[k + 1]) /\ moves[k].rank < moves[k + 1].rank

C1_Witness == ServiceRan("Queen") /\ position = Square(3, 4) /\ Len(moves) = 27

\* C2: the Pawn rule returns exactly the square one rank up on the same
\* file when the origin's rank is below 8, and nothing on rank 8.
C2_PawnOneStepForward ==
  StrategyRan("Pawn") =>
    /\ thrown = NoError
    /\ position.rank < 8 => moves = <<[file |-> position.file, rank |-> position.rank + 1]>>
    /\ position.rank = 8 => moves = <<>>
    /\ \A k \in 1..Len(moves) : moves[k].file = position.file /\ moves[k].rank > position.rank

C2_Witness == StrategyRan("Pawn") /\ position = Square(6, 1) /\ moves = <<Square(6, 2)>>

\* C3: the King rule returns 3 squares from a corner, 5 from an edge square
\* that is no corner, and 8 from a square with file B..G and rank 2..7.
C3_KingCounts ==
  StrategyRan("King") =>
    /\ thrown = NoError
    /\ Corner(position) => Len(moves) = 3
    /\ Edge(position) /\ ~Corner(position) => Len(moves) = 5
    /\ Column(position) \in 1..6 /\ position.rank \in 2..7 => Len(moves) = 8

C3_Witness == StrategyRan("King") /\ position = Square(0, 4) /\ Len(moves) = 5

\* C4: the squares the King rule returns are exactly the board squares at
\* most one file and one rank away from the origin, the origin excluded;
\* from D5 they are C4, C5, C6, D4, D6, E4, E5, E6.
C4_KingNeighbours ==
  StrategyRan("King") =>
    /\ Elements(moves) =
         {q \in Board : /\ Distance(Column(q), Column(position)) <= 1
                        /\ Distance(q.rank, position.rank) <= 1
                        /\ q # position}
    /\ position = Square(3, 5) =>
         Elements(moves) = {Square(2, 4), Square(2, 5), Square(2, 6), Square(3, 4),
                            Square(3, 6), Square(4, 4), Square(4, 5), Square(4, 6)}

C4_Witness == StrategyRan("King") /\ position = Square(3, 5) /\ Square(4, 6) \in Elements(moves)

OnDiagonal(q, p) ==
  Distance(Column(q), Column(p)) = Distance(q.rank, p.rank)

\* C5: the Queen rule returns 7 squares of the rank, 7 of the file and the
\* squares of the two diagonals through the origin: 21 from a corner, 27
\* from D4, D5, E4 and E5.
C5_QueenCounts ==
  StrategyRan("Queen") =>
    /\ thrown = NoError
    /\ Len(moves) = (8 - 1) + (8 - 1)
                      + Cardinality({q \in Board : q # position /\ OnDiagonal(q, position)})
    /\ Corner(position) => Len(moves) = 21
    /\ Column(position) \in 3..4 /\ position.rank \in 4..5 => Len(moves) = 27

C5_Witness == StrategyRan("Queen") /\ position = Square(7, 8) /\ Len(moves) = 21

\* C6: the Queen's squares are the board squares on the origin's rank, file
\* or diagonals, the origin excluded; the service returns the 27 squares of
\* the Queen on E4 in file-then-rank order.
QueenFromE4 ==
  << Square(0, 4), Square(0, 8), Square(1, 1), Square(1, 4), Square(1, 7),
     Square(2, 2), Square(2, 4), Square(2, 6), Square(3, 3), Square(3, 4),
     Square(3, 5), Square(4, 1), Square(4, 2), Square(4, 3), Square(4, 5),
     Square(4, 6), Square(4, 7), Square(4, 8), Square(5, 3), Square(5, 4),
     Square(5, 5), Square(6, 2), Square(6, 4), Square(6, 6), Square(7, 1),
     Square(7, 4), Square(7, 7) >>

C6_QueenLines ==
  (StrategyRan("Queen") \/ ServiceRan("Queen")) =>
    /\ thrown = NoError
    /\ Elements(moves) =
         {q \in Board : /\ q # position
                        /\ \/ q.rank = position.rank
                           \/ Column(q) = Column(position)
                           \/ OnDiagonal(q, position)}
    /\ ServiceRan("Queen") /\ position = Square(4, 4) => moves = QueenFromE4

C6_Witness == ServiceRan("Queen") /\ position = Square(4, 4) /\ moves[2] = Square(0, 8)

\* C7: for every piece kind and every origin on the board no returned square
\* is the origin and every returned square has file A..H and rank 1..8.
C7_OnBoardNeverOrigin ==
  \A kind \in PieceType :
    (StrategyRan(kind) \/ ServiceRan(kind)) =>
      \A k \in 1..Len(moves) :
        /\ moves[k] # position
        /\ OnBoard(moves[k])
        /\ isValid(moves[k])

C7_Witness == StrategyRan("Queen") /\ position = Square(0, 1) /\ Len(moves) = 21

\* C8: for every board square s, fromNotation(s.toNotation()) is s; and for
\* every two-character text fromNotation accepts, the notation of the
\* square it returns is the text with its letter in upper case.
C8_NotationRoundTrip ==
  /\ pc = "toNotation" /\ OnBoard(position) => fromNotation(argText) = Return(position)
  /\ pc = "fromNotation" /\ Len(argText) = 2 /\ thrown = NoError =>
       toNotation(returned) = toUpperCase(<<argText[1]>>) \o <<argText[2]>>

C8_Witness == pc = "fromNotation" /\ argText = <<104, 56>> /\ returned = Square(7, 8)

\* C9: offset returns null, and throws nothing, exactly when the file index
\* plus fileOffset leaves 0..7 or the rank plus rankOffset leaves 1..8;
\* otherwise it returns the square with that file index and that rank.
C9_OffsetNullExactlyOffBoard ==
  pc = "offset" =>
    LET f == (position.file[1] - 65) + argFile
        r == position.rank + argRank
    IN  /\ thrown = NoError
        /\ returned = Null <=> (f \notin 0..7 \/ r \notin 1..8)
        /\ f \in 0..7 /\ r \in 1..8 => returned = Square(f, r)

C9_Witness ==
  pc = "offset" /\ position = Square(0, 1) /\ argFile = 0 - 1 /\ argRank = 0 /\ returned = Null

\* C10: for every Position p, p.offset(0, 0) has the file and the rank of p,
\* and no call of offset or of a movement rule changes the file or rank of
\* the Position it was called on.
C10_OffsetIdentityAndNoMutation ==
  /\ [](pc = "offset" /\ argFile = 0 /\ argRank = 0 =>
          returned.file = position.file /\ returned.rank = position.rank)
  /\ [][pc' \in {"offset", "strategy", "calculateValidMoves"} => position' = position]_vars

\* C11: new Position(file, rank) succeeds only for a file that is one letter
\* A..H in either case and an integer rank 1..8; every other file throws
\* the invalid-file error, every other rank the invalid-rank error, and a
\* constructed Position is a board square.
C11_ConstructorValidates ==
  pc = "new Position" =>
    LET fileOk == Len(argText) = 1 /\ argText[1] \in (65..72) \cup (97..104)
        rankOk == argNum.kind = "int" /\ argNum.v \in 1..8
    IN  /\ thrown = NoError <=> fileOk /\ rankOk
        /\ ~fileOk => thrown.msg = "Invalid file"
        /\ fileOk /\ ~rankOk => thrown.msg = "Invalid rank"
        /\ thrown = NoError => OnBoard(position) /\ isValid(position)


Letter(c) == c \in (65..90) \cup (97..122) \cup {64256}

LetterAtoH(c) == c \in (65..72) \cup (97..104)

Digit(c) == c \in 48..57

\* C12, as claimed: fromNotation fails with Invalid notation for every text
\* that is not two characters, a letter and a digit; with the invalid-file
\* error for a letter outside A..H and a digit; with the invalid-rank error
\* for a letter A..H and the digit 0 or 9; and returns the square otherwise.
C12_AsClaimed ==
  pc = "fromNotation" =>
    IF Len(argText) # 2 \/ ~Letter(argText[1]) \/ ~Digit(argText[2])
    THEN thrown.msg = "Invalid notation"
    ELSE IF ~LetterAtoH(argText[1]) THEN thrown.msg = "Invalid file"
    ELSE IF argText[2] \in {48, 57} THEN thrown.msg = "Invalid rank"
    ELSE thrown = NoError /\ OnBoard(returned)

\* the first characters the constructor takes for a file (the ligature
\* U+FB00 is stored as FF)
FileAccepted(c) == LetterAtoH(c) \/ c = 64256

\* C12, amended: fromNotation fails with Invalid notation exactly for the
\* texts that are not two characters long; a two-character text fails with
\* the invalid-file error when the constructor rejects its first character
\* in upper case, else with the invalid-rank error when its second
\* character is not a digit 1..8 (NaN for a non-digit), else the square of
\* that file and rank is returned.
C12_NotationErrors ==
  pc = "fromNotation" =>
    IF Len(argText) # 2
    THEN thrown = [msg |-> "Invalid notation", arg |-> argText, wrap |-> <<>>]
    ELSE IF ~FileAccepted(argText[1])
    THEN thrown.msg = "Invalid file" /\ thrown.wrap = <<>>
           /\ thrown.arg = <<IF argText[1] \in 97..122 THEN argText[1] - 32 ELSE argText[1]>>
    ELSE IF argText[2] \notin 49..56
    THEN thrown.msg = "Invalid rank" /\ thrown.wrap = <<>>
           /\ thrown.arg = (IF Digit(argText[2]) THEN <<argText[2]>> ELSE <<78, 97, 78>>)
    ELSE /\ thrown = NoError
         /\ returned.rank = argText[2] - 48
         /\ LetterAtoH(argText[1]) =>
              returned = Square(IF argText[1] >= 97 THEN argText[1] - 97 ELSE argText[1] - 65,
                                argText[2] - 48)

C12_Witness ==
  pc = "fromNotation" /\ argText = <<68, 68>> /\ thrown.msg = "Invalid rank"
    /\ thrown.arg = <<78, 97, 78>>


\* C13: fromCoordinates(i, r) returns the square of file index i and rank r
\* for i in 0..7 and r in 1..8, throws the invalid-file error for every
\* other integer i, and the invalid-rank error for i in 0..7 and any other r.
C13_FromCoordinatesValidates ==
  pc = "fromCoordinates" =>
    IF argFile \notin 0..7 THEN thrown.msg = "Invalid file" /\ returned = Null
    ELSE IF argRank \notin 1..8 THEN thrown.msg = "Invalid rank" /\ returned = Null
    ELSE thrown = NoError /\ returned = Square(argFile, argRank)

\* the text is white space, a spelling of the name of the kind in upper and
\* lower case ASCII letters, and white space
Names(text, kind) ==
  \E first \in 1..Len(text), last \in 1..Len(text) :
    /\ \A i \in 1..Len(text) : i < first \/ i > last => text[i] \in WhiteSpace
    /\ last - first + 1 = Len(codeUnits(kind))
    /\ \A i \in first..last :
         LET c == codeUnits(kind)[i - first + 1]
         IN  text[i] \in {c, IF c \in 65..90 THEN c + 32 ELSE c - 32}

\* "Pawn, King, Queen"
SupportedSetText ==
  <<80, 97, 119, 110, 44, 32, 75, 105, 110, 103, 44, 32, 81, 117, 101, 101, 110>>

\* C14: fromString(s) returns kind K exactly when s, trimmed and compared
\* without regard to the case of its ASCII letters, is the name of K; for
\* every other text it throws the unsupported-piece error that quotes s and
\* names the set "Pawn, King, Queen"; isValid(s) is true exactly when
\* fromString(s) does not throw.
C14_FromStringAndIsValid ==
  /\ pc = "fromString" =>
       /\ \A kind \in PieceType :
            Names(argText, kind) <=> thrown = NoError /\ pieceType = kind
       /\ (\A kind \in PieceType : ~Names(argText, kind)) =>
            /\ pieceType = ""
            /\ thrown = Error("Unsupported piece type",
                              argText \o SupportedTypesText \o SupportedSetText)
  /\ pc = "PieceTypeUtils.isValid" =>
       (flag <=> \E kind \in PieceType : Names(argText, kind))

\* fromString returned Queen for a padded spelling in mixed case
C14_Witness ==
  /\ pc = "fromString"
  /\ argText = <<9, 32, 113, 85, 69, 101, 78, 32>>
  /\ pieceType = "Queen"
  /\ thrown = NoError

\* the movement rule the program registers for a kind
RuleOf(kind) ==
  CASE kind = "Pawn" -> "PawnMovementStrategy"
    [] kind = "King" -> "KingMovementStrategy"
    [] kind = "Queen" -> "QueenMovementStrategy"
    [] OTHER -> ""

\* C15: createStrategy(k) returns the rule registered for k exactly when
\* hasStrategy(k) is true, exactly when k is in getSupportedPieceTypes();
\* that list is Pawn, King, Queen in this order; hasStrategy never throws;
\* createStrategy throws its no-strategy error for a kind that has no rule.
C15_FactoryOperationsAgree ==
  /\ \A kind \in KindInputs :
       /\ hasStrategy(kind) <=> \E i \in 1..Len(getSupportedPieceTypes) :
                                   getSupportedPieceTypes[i] = kind
       /\ hasStrategy(kind) <=> createStrategy(kind).err = NoError
                                   /\ createStrategy(kind).strategy = RuleOf(kind)
                                   /\ RuleOf(kind) # ""
  /\ pc = "createStrategy" =>
       IF pieceType \in {"Pawn", "King", "Queen"}
       THEN thrown = NoError /\ strategy = RuleOf(pieceType)
       ELSE /\ strategy = ""
            /\ thrown = Error("No movement strategy found for piece type",
                              codeUnits(pieceType))
  /\ pc = "hasStrategy" =>
       thrown = NoError /\ (flag <=> pieceType \in {"Pawn", "King", "Queen"})
  /\ pc = "getSupportedPieceTypes" =>
       thrown = NoError /\ kinds = <<"Pawn", "King", "Queen">>

\* createStrategy was asked for a kind that has no rule
C15_Witness ==
  /\ pc = "createStrategy"
  /\ pieceType = "Rook"
  /\ thrown.msg = "No movement strategy found for piece type"
  /\ strategy = ""

\* C16 as stated: an error raised while calculateValidMoves resolves or runs
\* the strategy reaches the caller unmodified, not wrapped.
C16_AsClaimed ==
  pc = "calculateValidMoves" /\ thrown # NoError =>
    /\ thrown.wrap = <<>>
    /\ pieceType \notin {"Pawn", "King", "Queen"} =>
         thrown = Error("No movement strategy found for piece type", codeUnits(pieceType))

\* C16: an error raised while calculateValidMoves resolves or runs the
\* strategy reaches the caller once, re-raised as a new error whose message
\* is the original message behind the prefix 'Failed to calculate moves: ';
\* for a kind without a strategy the original is the factory's error.
C16_ErrorsWrappedOnce ==
  pc = "calculateValidMoves" =>
    /\ thrown # NoError =>
         thrown.wrap = <<"Failed to calculate moves">> /\ moves = <<>>
    /\ pieceType \notin {"Pawn", "King", "Queen"} =>
         thrown = [msg |-> "No movement strategy found for piece type",
                   arg |-> codeUnits(pieceType),
                   wrap |-> <<"Failed to calculate moves">>]

\* the service was asked for the moves of a kind without a strategy
C16_Witness ==
  /\ pc = "calculateValidMoves"
  /\ pieceType = "Rook"
  /\ OnBoard(position)
  /\ thrown.msg = "No movement strategy found for piece type"

C18_OutputString ==
  pc = "calculateValidMovesAsString" /\ thrown = NoError =>
    /\ moves = calculateValidMoves(pieceType, position).moves
    /\ moves = <<>> => outputText = <<>>
    /\ moves # <<>> => Len(outputText) = 4 * Len(moves) - 2
    /\ \A i \in 1..Len(moves) :
         /\ <<outputText[4 * i - 3]>> = moves[i].file
         /\ outputText[4 * i - 2] = 48 + moves[i].rank
         /\ i < Len(moves) => outputText[4 * i - 1] = 44 /\ outputText[4 * i] = 32

\* the string of the king's moves from A1 is "A2, B1, B2"
C18_Witness ==
  /\ pc = "calculateValidMovesAsString"
  /\ pieceType = "King"
  /\ position = Square(0, 1)
  /\ outputText = <<65, 50, 44, 32, 66, 49, 44, 32, 66, 50>>

\* the text is empty or white space only
Blank(text) == \A i \in 1..Len(text) : text[i] \in WhiteSpace

\* the text spells one of the three piece kinds
NamesAKind(text) == \E kind \in PieceType : Names(text, kind)

\* C20: parseArgs checks, in this order, that there are arguments, that
\* there are two, that none is blank, then the piece kind, then the square,
\* and the first failing check decides the error; piece-kind and square
\* errors carry the prefix 'Invalid input: ', the others do not; when every
\* check passes the result is the parsed kind and square.
C20_ParseArgsOrder ==
  pc = "parseArgs" =>
    LET items == argList.items
        prefixed(e) == [msg |-> e.msg, arg |-> e.arg, wrap |-> <<"Invalid input">>]
    IN  IF argList.isNull \/ Len(items) = 0
        THEN thrown = Error("No arguments provided", <<>>)
        ELSE IF Len(items) # 2
        THEN thrown = Error("Invalid number of arguments", <<48 + Len(items)>>)
        ELSE IF Blank(items[1]) \/ Blank(items[2])
        THEN thrown = Error("Arguments cannot be empty", <<>>)
        ELSE IF ~NamesAKind(items[1])
        THEN thrown = prefixed(fromString(items[1]).err)
               /\ thrown.msg = "Unsupported piece type"
        ELSE IF fromNotation(items[2]).err # NoError
        THEN thrown = prefixed(fromNotation(items[2]).err)
               /\ thrown.msg \in {"Invalid notation", "Invalid file", "Invalid rank"}
        ELSE /\ thrown = NoError
             /\ Names(items[1], pieceType)
             /\ returned = fromNotation(items[2]).pos

\* both the piece kind and the square were invalid, and the error is the
\* piece kind's
C20_Witness ==
  /\ pc = "parseArgs"
  /\ argList.items = <<(<<82, 111, 111, 107>>), (<<73, 53>>)>>
  /\ thrown.msg = "Unsupported piece type"
  /\ thrown.wrap = <<"Invalid input">>

\* C19: processCommandLineInput either prints the move list once, prints
\* no error and does not exit, or prints exactly one error line, no move
\* list, and exits with status 1; the line of a parse failure has the
\* context 'Input Processing', and the line of a failure detected by
\* processMovementRequest the context 'Movement Calculation'.
C19_ExactlyOneOutcome ==
  /\ pc = "processCommandLineInput" =>
       LET parsed == parseArgs(argList)
       IN  IF parsed.err = NoError
           THEN /\ stdout = <<calculateValidMovesAsString(parsed.pieceType,
                                                           parsed.position).text>>
                /\ stderr = <<>>
                /\ exited = <<>>
           ELSE /\ stdout = <<>>
                /\ stderr = <<[context |-> "Input Processing", err |-> parsed.err]>>
                /\ exited = <<1>>
  /\ pc = "processMovementRequest" =>
       IF pieceType \in {"Pawn", "King", "Queen"}
       THEN Len(stdout) = 1 /\ stderr = <<>> /\ exited = <<>>
       ELSE /\ stdout = <<>>
            /\ Len(stderr) = 1
            /\ stderr[1].context = "Movement Calculation"
            /\ stderr[1].err.msg = "Unsupported piece type"
            /\ exited = <<1>>

\* one argument only: one error line of the input stage and exit status 1
C19_Witness ==
  /\ pc = "processCommandLineInput"
  /\ argList.items = <<(<<75, 105, 110, 103>>)>>
  /\ stdout = <<>>
  /\ Len(stderr) = 1
  /\ stderr[1].context = "Input Processing"
  /\ stderr[1].err.msg = "Invalid number of arguments"
  /\ exited = <<1>>

\* the number of steps from the origin to the edge of the board in a direction
StepsToEdge(p, fileDirection, rankDirection) ==
  Cardinality({k \in 1..7 : /\ Column(p) + k * fileDirection \in 0..7
                            /\ p.rank + k * rankDirection \in 1..8})

Minimum(a, b) == IF a < b THEN a ELSE b

\* C21: for a direction other than (0,0), generateMovesInDirection returns
\* the squares origin + k*(fileDir, rankDir) for k = 1..n, nearest first,
\* where n is the number of steps to the edge, or the smaller of that and
\* maxSteps when maxSteps is given; with maxSteps = 0 offset is not called.
C21_RayInDirection ==
  pc = "generateMovesInDirection" /\ (argFile # 0 \/ argRank # 0) =>
    LET toEdge == StepsToEdge(position, argFile, argRank)
        n == IF maxStepsArg = <<>> THEN toEdge ELSE Minimum(toEdge, maxStepsArg[1])
    IN  /\ thrown = NoError
        /\ moves = [k \in 1..n |-> Square(Column(position) + k * argFile,
                                          position.rank + k * argRank)]
        /\ maxStepsArg = <<0>> => moves = <<>> /\ offsetCalls = 0

\* the ray from B2 to the upper right, limited to 3 steps: C3, D4, E5
C21_Witness ==
  /\ pc = "generateMovesInDirection"
  /\ position = Square(1, 2)
  /\ argFile = 1
  /\ argRank = 1
  /\ maxStepsArg = <<3>>
  /\ moves = <<Square(2, 3), Square(3, 4), Square(4, 5)>>

\* the squares at 1..n steps from p in a direction, nearest first, n the
\* steps to the edge or the smaller of that and the limit
Ray(p, direction, limit) ==
  LET toEdge == StepsToEdge(p, direction[1], direction[2])
      n == IF limit = <<>> THEN toEdge ELSE Minimum(toEdge, limit[1])
  IN  [k \in 1..n |-> Square(Column(p) + k * direction[1], p.rank + k * direction[2])]

\* the order of the directions in generateMovesInAllDirections
FixedOrder ==
  << <<0 - 1, 0 - 1>>, <<0 - 1, 0>>, <<0 - 1, 1>>, <<0, 0 - 1>>,
     <<0, 1>>, <<1, 0 - 1>>, <<1, 0>>, <<1, 1>> >>

\* orders of the eight directions: the fixed one with two directions
\* exchanged (or none), rotated, or reversed
DirectionOrders ==
  {[i \in 1..8 |-> FixedOrder[IF i = a THEN b ELSE IF i = b THEN a ELSE i]] :
     a \in 1..8, b \in 1..8}
  \cup {[i \in 1..8 |-> FixedOrder[((i + shift) % 8) + 1]] : shift \in 0..7}
  \cup {[i \in 1..8 |-> FixedOrder[9 - i]]}

\* C22: generateMovesInAllDirections is the concatenation of the rays of
\* the eight directions in the fixed order; for the King's and the Queen's
\* maxSteps the sorted, deduplicated result is the same when the directions
\* are taken in another order.
C22_AllDirectionsInFixedOrder ==
  pc = "generateMovesInAllDirections" =>
    /\ thrown = NoError
    /\ moves = Ray(position, FixedOrder[1], maxStepsArg) \o Ray(position, FixedOrder[2], maxStepsArg)
                 \o Ray(position, FixedOrder[3], maxStepsArg) \o Ray(position, FixedOrder[4], maxStepsArg)
                 \o Ray(position, FixedOrder[5], maxStepsArg) \o Ray(position, FixedOrder[6], maxStepsArg)
                 \o Ray(position, FixedOrder[7], maxStepsArg) \o Ray(position, FixedOrder[8], maxStepsArg)
    /\ maxStepsArg \in {<<>>, <<1>>} =>
         \A order \in DirectionOrders :
           sortAndDeduplicate(allDirectionsLoopIn(order, <<>>, 1, position, maxStepsArg).moves)
             = sortAndDeduplicate(moves)

\* all directions from A1 with one step: A2, B1, B2 in the order of the
\* directions up, right, right-up
C22_Witness ==
  /\ pc = "generateMovesInAllDirections"
  /\ position = Square(0, 1)
  /\ maxStepsArg = <<1>>
  /\ moves = <<Square(0, 2), Square(1, 1), Square(1, 2)>>

\* two Position objects are the same square
SameSquare(a, b) == a.file = b.file /\ a.rank = b.rank

\* C23: sortAndDeduplicate returns, for every array of Positions, each
\* distinct square of the array exactly once, the object kept being the
\* first of the array with that square, in ascending order of file and,
\* within a file, of rank; the array given is unchanged.
C23_SortAndDeduplicate ==
  pc = "sortAndDeduplicate" =>
    /\ thrown = NoError
    /\ positionsAfter = positionsArg
    /\ \A i \in 1..Len(positionsArg) :
         Cardinality({k \in 1..Len(moves) : SameSquare(moves[k], positionsArg[i])}) = 1
    /\ \A k \in 1..Len(moves) :
         /\ moves[k].id \in 1..Len(positionsArg)
         /\ moves[k] = positionsArg[moves[k].id]
         /\ \A i \in 1..(moves[k].id - 1) : ~SameSquare(positionsArg[i], moves[k])
    /\ \A k \in 1..(Len(moves) - 1) :
         \/ stringCompare(moves[k].file, moves[k + 1].file) < 0
         \/ moves[k].file = moves[k + 1].file /\ moves[k].rank < moves[k + 1].rank

\* the array B1, A2, B1 gives A2 and the first B1
C23_Witness ==
  /\ pc = "sortAndDeduplicate"
  /\ Len(positionsArg) = 3
  /\ SameSquare(positionsArg[1], [file |-> <<66>>, rank |-> 1])
  /\ SameSquare(positionsArg[2], [file |-> <<65>>, rank |-> 2])
  /\ SameSquare(positionsArg[3], [file |-> <<66>>, rank |-> 1])
  /\ Len(moves) = 2
  /\ moves[1].id = 2
  /\ moves[2].id = 1

\* C24: for a direction other than (0,0), with or without maxSteps,
\* generateMovesInDirection appends at most 7 squares and calls offset at
\* most 8 times; generateMovesInAllDirections with the King's or the
\* Queen's maxSteps appends at most 8 x 7 squares, and at most 27.
C24_BoundedSteps ==
  /\ pc = "generateMovesInDirection" /\ (argFile # 0 \/ argRank # 0) =>
       Len(moves) <= 7 /\ offsetCalls <= Len(moves) + 1
  /\ pc = "generateMovesInAllDirections" /\ maxStepsArg \in {<<>>, <<1>>} =>
       Len(moves) <= 27

\* the ray from A1 to the right without maxSteps has 7 squares and took 8
\* calls of offset
C24_Witness ==
  /\ pc = "generateMovesInDirection"
  /\ position = Square(0, 1)
  /\ argFile = 1
  /\ argRank = 0
  /\ maxStepsArg = <<>>
  /\ Len(moves) = 7
  /\ offsetCalls = 8

\* C25: on every origin of the board the sequence the King's and the
\* Queen's strategy return has no two equal squares, and calculateValidMoves
\* returns as many squares as the strategy.
C25_RawMovesDistinct ==
  \A kind \in {"King", "Queen"} :
    StrategyRan(kind) =>
      /\ \A a, b \in 1..Len(moves) : a # b => ~equals(moves[a], moves[b])
      /\ Len(calculateValidMoves(kind, position).moves) = Len(moves)
      /\ Elements(calculateValidMoves(kind, position).moves) = Elements(moves)

\* the King's strategy on H8 returned its 3 squares in the order of the
\* directions: G7, G8, H7
C25_Witness ==
  /\ StrategyRan("King")
  /\ position = Square(7, 8)
  /\ moves = <<Square(6, 7), Square(6, 8), Square(7, 7)>>

\* the indexes of the commas of a text
Commas(text) == {i \in 1..Len(text) : text[i] = 44}

\* C26: parseString of a string with one comma gives the piece kind and
\* square, or the error, of parseArgs of the two parts trimmed; a value
\* that is not a string and the empty string fail with 'Input must be a
\* non-empty string', a string that has no comma or more than one with
\* 'Invalid input format'.
C26_ParseStringAgrees ==
  pc = "parseString" =>
    IF argList.isNull \/ argText = <<>>
    THEN thrown = Error("Input must be a non-empty string", <<>>)
    ELSE IF Cardinality(Commas(argText)) # 1
    THEN thrown = Error("Invalid input format", argText)
    ELSE \A k \in Commas(argText) :
           /\ thrown = parseArgs([isNull |-> FALSE,
                                  items |-> <<trim(SubSeq(argText, 1, k - 1)),
                                              trim(SubSeq(argText, k + 1, Len(argText)))>>]).err
           /\ pieceType = parseArgs([isNull |-> FALSE,
                                     items |-> <<trim(SubSeq(argText, 1, k - 1)),
                                                 trim(SubSeq(argText, k + 1, Len(argText)))>>]).pieceType
           /\ returned = parseArgs([isNull |-> FALSE,
                                    items |-> <<trim(SubSeq(argText, 1, k - 1)),
                                                trim(SubSeq(argText, k + 1, Len(argText)))>>]).position

\* " King , h8" gives the King on H8
C26_Witness ==
  /\ pc = "parseString"
  /\ argText = <<32, 75, 105, 110, 103, 32, 44, 32, 104, 56, 32>>
  /\ thrown = NoError
  /\ pieceType = "King"
  /\ returned = Square(7, 8)

\* a text of two characters, a letter A..H in either case and a character
\* that is no digit
LetterThenNoDigit(text) ==
  Len(text) = 2 /\ LetterAtoH(text[1]) /\ ~Digit(text[2])

\* C27: for a square text of a letter A..H and a character that is not a
\* digit, fromNotation throws 'Invalid rank: NaN. Must be 1-8.' and
\* parseArgs, given a valid piece kind, throws the same with the prefix
\* 'Invalid input: '.
C27_RankNaN ==
  /\ pc = "fromNotation" /\ LetterThenNoDigit(argText) =>
       returned = Null /\ thrown = Error("Invalid rank", <<78, 97, 78>>)
  /\ pc = "parseArgs" /\ ~argList.isNull /\ Len(argList.items) = 2 =>
       (NamesAKind(argList.items[1]) /\ LetterThenNoDigit(argList.items[2]) =>
          thrown = [msg |-> "Invalid rank", arg |-> <<78, 97, 78>>,
                    wrap |-> <<"Invalid input">>])

\* parseArgs of King and DD
C27_Witness ==
  /\ pc = "parseArgs"
  /\ argList.items = <<(<<75, 105, 110, 103>>), (<<68, 68>>)>>
  /\ thrown.msg = "Invalid rank"
  /\ thrown.arg = <<78, 97, 78>>
  /\ thrown.wrap = <<"Invalid input">>

\* at most one file and one rank away
Adjacent(p, q) ==
  Distance(Column(p), Column(q)) <= 1 /\ Distance(p.rank, q.rank) <= 1

\* C28: on every origin of the board every square of the Pawn's result is
\* in the King's, every square of the King's result is in the Queen's, and
\* the King's squares are the Queen's squares at most one file and one rank
\* from the origin.
C28_MoveSetsNested ==
  /\ StrategyRan("Pawn") =>
       Elements(moves) \subseteq Elements(KingMovementStrategy(position).moves)
  /\ StrategyRan("King") =>
       /\ Elements(PawnMovementStrategy(position).moves) \subseteq Elements(moves)
       /\ Elements(moves) \subseteq Elements(QueenMovementStrategy(position).moves)
       /\ Elements(moves) = {q \in Elements(QueenMovementStrategy(position).moves) :
                               Adjacent(position, q)}
  /\ StrategyRan("Queen") =>
       Elements(KingMovementStrategy(position).moves) \subseteq Elements(moves)

\* the Pawn's strategy on E4 returned E5, one of the King's squares
C28_Witness ==
  /\ StrategyRan("Pawn")
  /\ position = Square(4, 4)
  /\ moves = <<Square(4, 5)>>
  /\ Square(4, 5) \in Elements(KingMovementStrategy(position).moves)

\* C29: for squares a and b of the board, b is in the King's (Queen's)
\* result from a exactly when a is in the King's (Queen's) result from b;
\* when b is in the Pawn's result from a, a is not in the Pawn's result
\* from b.
C29_Symmetry ==
  /\ StrategyRan("King") =>
       \A b \in Board :
         b \in Elements(moves) <=> position \in Elements(KingMovementStrategy(b).moves)
  /\ StrategyRan("Queen") =>
       \A b \in Board :
         b \in Elements(moves) <=> position \in Elements(QueenMovementStrategy(b).moves)
  /\ StrategyRan("Pawn") =>
       \A b \in Elements(moves) : position \notin Elements(PawnMovementStrategy(b).moves)

\* the Queen's strategy on A1 returned H8, and from H8 it returns A1
C29_Witness ==
  /\ StrategyRan("Queen")
  /\ position = Square(0, 1)
  /\ Square(7, 8) \in Elements(moves)
  /\ position \in Elements(QueenMovementStrategy(Square(7, 8)).moves)

\* the argument list is empty or holds '--help' or '-h' at some position
AsksForHelp(items) ==
  \/ items = <<>>
  \/ \E i \in 1..Len(items) : items[i] \in {<<45, 45, 104, 101, 108, 112>>, <<45, 104>>}

\* C30: when the argument list is empty or holds '--help' or '-h' at any
\* position, main prints the usage help once and nothing else, prints no
\* error and does not exit; for every other list it prints no help and
\* does what processCommandLineInput does with the list.
C30_HelpTakesPrecedence ==
  pc = "main" =>
    IF AsksForHelp(argList.items)
    THEN stdout = <<getUsageHelp>> /\ stderr = <<>> /\ exited = <<>>
    ELSE /\ getUsageHelp \notin Elements(stdout)
         /\ stdout = processCommandLineInput(argList).stdout
         /\ stderr = processCommandLineInput(argList).stderr
         /\ exited = processCommandLineInput(argList).exited
         /\ \/ Len(stdout) = 1 /\ stderr = <<>> /\ exited = <<>>
            \/ stdout = <<>> /\ Len(stderr) = 1 /\ exited = <<1>>

\* main with King, D5, --help printed the help only
C30_Witness ==
  /\ pc = "main"
  /\ argList.items = <<(<<75, 105, 110, 103>>), (<<68, 53>>), (<<45, 45, 104, 101, 108, 112>>)>>
  /\ stdout = <<getUsageHelp>>
  /\ stderr = <<>>
  /\ exited = <<>>

====
